---- MODULE Spec2Model ----
(***************************************************************************)
(* Model of the Slack alert relay of ieos-golang-utils:                    *)
(*   ieos-slack-logger/pubsub_handler.go (getLogger, HandleLogAlert,       *)
(*   chooseChannelForSeverity, getString) and the Slack client file        *)
(*   (package init, testSlackAuth, SendMessage).                           *)
(*                                                                         *)
(* Go strings are sequences of chunks: a chunk is one character where the  *)
(* code looks at characters (severity, bot token) and an opaque piece of   *)
(* text elsewhere.  The nil error and the empty string are both <<>>;      *)
(* every error the code builds has a non-empty message.                    *)
(***************************************************************************)
EXTENDS Naturals, Sequences, FiniteSets, TLC

VARIABLES
    env,            \* os environment: bot token and the three channel ids
    initDone,       \* package init() has run
    slackClient,    \* "nil" or "client"
    isSlackEnabled, \* BOOLEAN
    authTest,       \* outcome of slackClient.AuthTest in init: "notcalled", "ok", "fail"
    appLogger,      \* the cached logger: "nil", "cloud" or "stdout"
    onceDone,       \* loggerInitOnce: done flag
    onceMu,         \* loggerInitOnce: mutex holder, 0 when free
    initRuns,       \* how many times the function passed to loggerInitOnce.Do started
    newLog,         \* the calls of logger.New so far: WithStdoutOnly given, and the outcome
    pc,             \* per goroutine: position inside HandleLogAlert / getLogger
    lg,             \* per goroutine: local lg of the initializer
    got,            \* per goroutine: value returned by getLogger
    calls,          \* invocations of HandleLogAlert started so far
    slack,          \* messages posted to Slack, in order: <<channel, text>>
    last            \* the last completed invocation: its message and its events

vars == <<env, initDone, slackClient, isSlackEnabled, authTest, appLogger, onceDone,
          onceMu, initRuns, newLog, pc, lg, got, calls, slack, last>>

\* ---------------------------------------------------------------- bounds

NumProcs == 2
MaxCalls == 2

Procs == 1..NumProcs

\* ---------------------------------------------------------------- strings

Lower == <<"a","b","c","d","e","f","g","h","i","j","k","l","m",
           "n","o","p","q","r","s","t","u","v","w","x","y","z">>
Upper == <<"A","B","C","D","E","F","G","H","I","J","K","L","M",
           "N","O","P","Q","R","S","T","U","V","W","X","Y","Z">>

UpperChar(c) ==
    IF \E i \in DOMAIN Lower : Lower[i] = c
    THEN Upper[CHOOSE i \in DOMAIN Lower : Lower[i] = c]
    ELSE c

\* strings.ToUpper
ToUpper(s) == [i \in DOMAIN s |-> UpperChar(s[i])]

\* strings.HasPrefix
HasPrefix(s, prefix) ==
    /\ Len(s) >= Len(prefix)
    /\ SubSeq(s, 1, Len(prefix)) = prefix

\* strings.Contains
Contains(s, sub) ==
    \E i \in 1..(Len(s) + 1) :
        /\ i + Len(sub) - 1 <= Len(s)
        /\ SubSeq(s, i, i + Len(sub) - 1) = sub

NoErr == <<>>

\* ---------------------------------------------------------------- JSON

\* A decoded JSON value (Go `any`): t is "null" (nil), "str", "num" or "obj".
\* s is the text of a string or number; m is an object's members in the order
\* of the input, as <<key, literal>> pairs.
JNull == [t |-> "null", s |-> <<>>, m |-> <<>>]
JStr(s) == [t |-> "str", s |-> s, m |-> <<>>]
JNum(s) == [t |-> "num", s |-> s, m |-> <<>>]
JObj(m) == [t |-> "obj", s |-> <<>>, m |-> m]

\* json.Unmarshal(m.Data, &payload) with payload a nil map[string]any.
\* A syntax error and a JSON value of another type (array, string, number)
\* return an error; the literal null returns no error and leaves the map nil;
\* an object fills the map.  Reading a nil map gives the zero value, so the
\* nil map is the map with no keys.
Unmarshal(data) ==
    CASE data.kind = "object" -> [err |-> NoErr, payload |-> data.fields]
      [] data.kind = "null"   -> [err |-> NoErr, payload |-> <<>>]
      [] data.kind = "array"  ->
            [err |-> <<"json: cannot unmarshal array into Go value of type map[string]interface {}">>,
             payload |-> <<>>]
      [] OTHER ->
            [err |-> <<"invalid character in JSON input">>, payload |-> <<>>]

\* payload[key]: the zero value (nil) for a missing key
Lookup(payload, key) ==
    IF key \in DOMAIN payload THEN payload[key] ELSE JNull

\* getString: the string of a string value, "" for anything else
getString(v) == IF v.t = "str" THEN v.s ELSE <<>>

\* Members of an object sorted by key (encoding/json sorts map keys).
KeyOrder == <<"a", "b", "c">>
KeyRank(k) == CHOOSE i \in DOMAIN KeyOrder : KeyOrder[i] = k

RECURSIVE SortMembers(_)
SortMembers(m) ==
    IF Len(m) = 0 THEN <<>>
    ELSE LET i == CHOOSE i \in DOMAIN m :
                      \A j \in DOMAIN m : KeyRank(m[i][1]) <= KeyRank(m[j][1])
             rest == [j \in 1..(Len(m) - 1) |-> IF j < i THEN m[j] ELSE m[j + 1]]
         IN  <<m[i]>> \o SortMembers(rest)

RECURSIVE JoinMembers(_)
JoinMembers(m) ==
    IF Len(m) = 0 THEN <<>>
    ELSE <<"\"", m[1][1], "\"", ":">> \o m[1][2]
         \o (IF Len(m) > 1 THEN <<",">> ELSE <<>>)
         \o JoinMembers(Tail(m))

\* json.Marshal of a decoded value: compact, object keys sorted
Marshal(v) ==
    CASE v.t = "str" -> <<"\"">> \o v.s \o <<"\"">>
      [] v.t = "num" -> v.s
      [] v.t = "obj" -> <<"{">> \o JoinMembers(SortMembers(v.m)) \o <<"}">>
      [] OTHER -> <<"null">>

\* ---------------------------------------------------------------- Slack client

BotTokenPrefix == <<"x","o","x","b","-">>

ErrNotConfigured == <<"slack is not properly configured">>
ErrChannelRequired == <<"channel ID is required">>
ErrAuthFailed ==
    <<"slack authentication failed - please check your bot token and permissions">>
ErrChannelNotFound == <<"slack channel not found - please check your channel ID">>
ErrNotInChannel ==
    <<"slack bot is not in the specified channel - please invite the bot to the channel">>
ErrSendFailedPrefix == <<"failed to send slack message: ">>

\* godotenv.Load: a variable of the .env file is set unless the environment
\* already has a value for it
DotEnvLoad(e, file) ==
    [k \in DOMAIN e |-> IF e[k] = <<>> THEN file[k] ELSE e[k]]

\* testSlackAuth: auth is what slackClient.AuthTest answers
testSlackAuth(client, auth) ==
    IF client = "nil" THEN <<"slack client not initialized">>
    ELSE IF auth = "ok" THEN NoErr ELSE <<"invalid_auth">>

\* The .env files a deployment may carry: none (nothing set), or one that sets
\* the bot token and the default channel.
DotEnvFiles ==
    { [token |-> <<>>, err |-> <<>>, warn |-> <<>>, def |-> <<>>],
      [token |-> <<"x","o","x","b","-","9">>, err |-> <<>>, warn |-> <<>>,
       def |-> <<"C0">>] }

initNoAuthTest ==
    /\ ~initDone
    /\ \E file \in DotEnvFiles, auth \in {"ok", "fail"} :
        LET loaded == DotEnvLoad(env, file)
            botToken == loaded.token
        IN  /\ env' = loaded
            /\ IF botToken = <<>> \/ ~HasPrefix(botToken, BotTokenPrefix)
               THEN /\ isSlackEnabled' = FALSE
                    /\ UNCHANGED <<slackClient, authTest>>
               ELSE /\ slackClient' = "client"
                    /\ authTest' = auth
                    /\ isSlackEnabled' = TRUE
    /\ initDone' = TRUE
    /\ UNCHANGED <<appLogger, onceDone, onceMu, initRuns, newLog, pc, lg, got,
                   calls, slack, last>>

\* func init(): runs once, before any handler
init ==
    /\ ~initDone
    /\ \E file \in DotEnvFiles, auth \in {"ok", "fail"} :
        LET loaded == DotEnvLoad(env, file)
            botToken == loaded.token
        IN  /\ env' = loaded
            /\ IF botToken = <<>> \/ ~HasPrefix(botToken, BotTokenPrefix)
               THEN /\ isSlackEnabled' = FALSE
                    /\ UNCHANGED <<slackClient, authTest>>
               ELSE /\ slackClient' = "client"
                    /\ authTest' = auth
                    /\ isSlackEnabled' = (testSlackAuth("client", auth) = NoErr)
    /\ initDone' = TRUE
    /\ UNCHANGED <<appLogger, onceDone, onceMu, initRuns, newLog, pc, lg, got,
                   calls, slack, last>>

\* One step of a handler's execution, as the outside can observe it.
\*   op "log":    a record written through the request logger `on`
\*   op "send":   a call of SendMessage and what it returned
\*   op "post":   a call of PostMessage on client `on` and what it returned
\*   op "return": HandleLogAlert returning err
Event(op, on, lvl, ch, text, ts, err) ==
    [op |-> op, on |-> on, lvl |-> lvl, ch |-> ch, text |-> text, ts |-> ts, err |-> err]

\* Delivery tokens (message timestamps) Slack hands out: the n-th posted
\* message gets the n-th one.
Timestamps == <<"1700000001.000100", "1700000002.000200", "1700000003.000300",
                "1700000004.000400", "1700000005.000500">>
NextTs == <<Timestamps[Len(slack) + 1]>>

sendErrorAuthOnly(e) ==
    IF Contains(e, <<"invalid_auth">>) THEN ErrAuthFailed
    ELSE ErrSendFailedPrefix \o e

\* SendMessage, lines 180-191: the error returned for PostMessage's error e
sendError(e) ==
    IF Contains(e, <<"invalid_auth">>) THEN ErrAuthFailed
    ELSE IF Contains(e, <<"channel_not_found">>) THEN ErrChannelNotFound
    ELSE IF Contains(e, <<"not_in_channel">>) THEN ErrNotInChannel
    ELSE ErrSendFailedPrefix \o e

SendMessageNoChannelCheck(channelID, message, o) ==
    IF ~isSlackEnabled
    THEN [ts |-> <<>>, err |-> ErrNotConfigured, post |-> <<>>]
    ELSE LET timestamp == IF o = NoErr THEN NextTs ELSE <<>>
         IN  [ts |-> timestamp,
              err |-> IF o # NoErr THEN sendError(o) ELSE NoErr,
              post |-> <<Event("post", slackClient, "", channelID, message, timestamp, o)>>]

\* SendMessage(channelID, message); o is the error PostMessage answers with
\* (NoErr when Slack accepts the message).  post is the PostMessage call made.
SendMessage(channelID, message, o) ==
    IF ~isSlackEnabled
    THEN [ts |-> <<>>, err |-> ErrNotConfigured, post |-> <<>>]
    ELSE IF channelID = <<>>
    THEN [ts |-> <<>>, err |-> ErrChannelRequired, post |-> <<>>]
    ELSE LET timestamp == IF o = NoErr THEN NextTs ELSE <<>>
         IN  [ts |-> IF o # NoErr THEN <<>> ELSE timestamp,
              err |-> IF o # NoErr THEN sendError(o) ELSE NoErr,
              post |-> <<Event("post", slackClient, "", channelID, message, timestamp, o)>>]

\* ---------------------------------------------------------------- handler

SevError == { <<"C","R","I","T","I","C","A","L">>, <<"A","L","E","R","T">>,
              <<"E","M","E","R","G","E","N","C","Y">>, <<"E","R","R","O","R">> }
SevWarning == { <<"W","A","R","N","I","N","G">>, <<"N","O","T","I","C","E">> }

chooseChannelCaseSensitive(sev) ==
    IF sev \in SevError /\ env.err # <<>> THEN env.err
    ELSE IF sev \in SevWarning /\ env.warn # <<>> THEN env.warn
    ELSE env.def

\* chooseChannelForSeverity: env.err, env.warn and env.def are
\* SLACK_ERROR_CHANNEL_ID, SLACK_WARNING_CHANNEL_ID and SLACK_DEFAULT_CHANNEL_ID
chooseChannelForSeverity(sev) ==
    LET up == ToUpper(sev)
    IN  IF up \in SevError /\ env.err # <<>> THEN env.err
        ELSE IF up \in SevWarning /\ env.warn # <<>> THEN env.warn
        ELSE IF env.def # <<>> THEN env.def
        ELSE <<>>

SevDefault == <<"D","E","F","A","U","L","T">>

\* HandleLogAlert, lines 65-73: the severity after defaulting
severityOf(payload) ==
    LET severity == getString(Lookup(payload, "severity"))
    IN  IF severity = <<>> THEN SevDefault ELSE severity

buildMessageJsonIfPresent(payload) ==
    LET logName == getString(Lookup(payload, "logName"))
        text == getString(Lookup(payload, "textPayload"))
    IN  <<"[">> \o severityOf(payload) \o <<"]", " ">> \o logName
        \o (IF text # <<>> THEN <<"\n">> \o text ELSE <<>>)
        \o (IF "jsonPayload" \in DOMAIN payload
            THEN <<"\n", "json: ">> \o Marshal(Lookup(payload, "jsonPayload"))
            ELSE <<>>)

\* HandleLogAlert, lines 65-85: the message text
buildMessage(payload) ==
    LET logName == getString(Lookup(payload, "logName"))
        text == getString(Lookup(payload, "textPayload"))
        jp == Lookup(payload, "jsonPayload")
    IN  <<"[">> \o severityOf(payload) \o <<"]", " ">> \o logName
        \o (IF text # <<>> THEN <<"\n">> \o text ELSE <<>>)
        \o (IF "jsonPayload" \in DOMAIN payload /\ jp # JNull
            THEN <<"\n", "json: ">> \o Marshal(jp)
            ELSE <<>>)

\* Data is the content of m.Data: kind "empty" is zero bytes, "syntax" is
\* bytes that are not JSON, "null" the JSON literal null, "array" a JSON array,
\* "object" a JSON object with the members `fields`.
Data(kind, fields) == [kind |-> kind, fields |-> fields]

HandleLogAlertRunSilentFailure(logger, m, o) ==
    IF m.kind = "empty"
    THEN << Event("log", logger, "WARNING", <<>>, <<"empty pubsub data">>, <<>>, NoErr),
            Event("return", "", "", <<>>, <<>>, <<>>, <<"empty pubsub data">>) >>
    ELSE LET u == Unmarshal(m) IN
    IF u.err # NoErr
    THEN << Event("log", logger, "ERROR", <<>>, <<"failed to parse pubsub json">>, <<>>, u.err),
            Event("return", "", "", <<>>, <<>>, <<>>, u.err) >>
    ELSE LET message == buildMessage(u.payload)
             channelID == chooseChannelForSeverity(severityOf(u.payload))
             r == SendMessage(channelID, message, o)
         IN  r.post
             \o << Event("send", "", "", channelID, message, r.ts, r.err) >>
             \o (IF r.err # NoErr
                 THEN << Event("return", "", "", <<>>, <<>>, <<>>, r.err) >>
                 ELSE << Event("log", logger, "INFO", channelID, <<"slack message sent">>,
                               r.ts, NoErr),
                         Event("return", "", "", <<>>, <<>>, <<>>, NoErr) >>)

HandleLogAlertRunDedup(logger, m, o) ==
    IF m.kind = "empty"
    THEN << Event("log", logger, "WARNING", <<>>, <<"empty pubsub data">>, <<>>, NoErr),
            Event("return", "", "", <<>>, <<>>, <<>>, <<"empty pubsub data">>) >>
    ELSE LET u == Unmarshal(m) IN
    IF u.err # NoErr
    THEN << Event("log", logger, "ERROR", <<>>, <<"failed to parse pubsub json">>, <<>>, u.err),
            Event("return", "", "", <<>>, <<>>, <<>>, u.err) >>
    ELSE LET message == buildMessage(u.payload)
             channelID == chooseChannelForSeverity(severityOf(u.payload))
             r == SendMessage(channelID, message, o)
         IN  IF \E i \in DOMAIN slack : slack[i] = <<channelID, message>>
             THEN << Event("return", "", "", <<>>, <<>>, <<>>, NoErr) >>
             ELSE r.post
                  \o << Event("send", "", "", channelID, message, r.ts, r.err) >>
                  \o (IF r.err # NoErr
                      THEN << Event("log", logger, "ERROR", <<>>, <<"slack send failed">>,
                                    <<>>, r.err),
                              Event("return", "", "", <<>>, <<>>, <<>>, r.err) >>
                      ELSE << Event("log", logger, "INFO", channelID,
                                    <<"slack message sent">>, r.ts, NoErr),
                              Event("return", "", "", <<>>, <<>>, <<>>, NoErr) >>)

\* HandleLogAlert, lines 52-95, after getLogger returned `logger`: what the
\* handler does for message m, in program order.  The "send" event follows the
\* "post" event of the PostMessage call SendMessage made, if it made one.
HandleLogAlertRun(logger, m, o) ==
    IF m.kind = "empty"
    THEN << Event("log", logger, "WARNING", <<>>, <<"empty pubsub data">>, <<>>, NoErr),
            Event("return", "", "", <<>>, <<>>, <<>>, <<"empty pubsub data">>) >>
    ELSE LET u == Unmarshal(m) IN
    IF u.err # NoErr
    THEN << Event("log", logger, "ERROR", <<>>, <<"failed to parse pubsub json">>, <<>>, u.err),
            Event("return", "", "", <<>>, <<>>, <<>>, u.err) >>
    ELSE LET message == buildMessage(u.payload)
             channelID == chooseChannelForSeverity(severityOf(u.payload))
             r == SendMessage(channelID, message, o)
         IN  r.post
             \o << Event("send", "", "", channelID, message, r.ts, r.err) >>
             \o (IF r.err # NoErr
                 THEN << Event("log", logger, "ERROR", <<>>, <<"slack send failed">>,
                               <<>>, r.err),
                         Event("return", "", "", <<>>, <<>>, <<>>, r.err) >>
                 ELSE << Event("log", logger, "INFO", channelID, <<"slack message sent">>,
                               r.ts, NoErr),
                         Event("return", "", "", <<>>, <<>>, <<>>, NoErr) >>)

\* The messages Slack accepted among the events, as <<channel, text>>
Posted(events) ==
    LET ok == SelectSeq(events, LAMBDA e : e.op = "post" /\ e.err = NoErr)
    IN  [i \in DOMAIN ok |-> <<ok[i].ch, ok[i].text>>]

\* HandleLogAlert from line 54 on, for goroutine p holding the logger got[p]
HandleLogAlert(p, m, o) ==
    /\ pc[p] = "body"
    /\ LET events == HandleLogAlertRun(got[p], m, o)
       IN  /\ last' = [msg |-> m, events |-> events]
           /\ slack' = slack \o Posted(events)
    /\ pc' = [pc EXCEPT ![p] = "idle"]
    /\ got' = [got EXCEPT ![p] = "nil"]
    /\ UNCHANGED <<env, initDone, slackClient, isSlackEnabled, authTest, appLogger,
                   onceDone, onceMu, initRuns, newLog, lg, calls>>

\* ---------------------------------------------------------------- getLogger

\* logger.New(ctx, opts...): what the constructor can answer.  With
\* WithStdoutOnly it builds the local stdout logger and does not fail; without
\* it, it builds the Cloud Logging logger, falls back to the stdout logger when
\* no project id resolves, or fails when the remote sink cannot be built.
loggerNew(stdoutOnly) ==
    IF stdoutOnly
    THEN { [lg |-> "stdout", err |-> NoErr] }
    ELSE { [lg |-> "cloud", err |-> NoErr],
           [lg |-> "stdout", err |-> NoErr],
           [lg |-> "nil", err |-> <<"failed to create logging client">>] }

\* HandleLogAlert is invoked on goroutine p and calls getLogger (line 52)
Invoke(p) ==
    /\ initDone
    /\ pc[p] = "idle"
    /\ calls < MaxCalls
    /\ calls' = calls + 1
    /\ pc' = [pc EXCEPT ![p] = "do"]
    /\ UNCHANGED <<env, initDone, slackClient, isSlackEnabled, authTest, appLogger,
                   onceDone, onceMu, initRuns, newLog, lg, got, slack, last>>

OnceDoNoWait(p) ==
    /\ pc[p] = "do"
    /\ pc' = [pc EXCEPT ![p] = IF onceDone \/ onceMu # 0 THEN "ret" ELSE "slow"]
    /\ UNCHANGED <<env, initDone, slackClient, isSlackEnabled, authTest, appLogger,
                   onceDone, onceMu, initRuns, newLog, lg, got, calls, slack, last>>

\* loggerInitOnce.Do, fast path: done is set, or go to doSlow
OnceDo(p) ==
    /\ pc[p] = "do"
    /\ pc' = [pc EXCEPT ![p] = IF onceDone THEN "ret" ELSE "slow"]
    /\ UNCHANGED <<env, initDone, slackClient, isSlackEnabled, authTest, appLogger,
                   onceDone, onceMu, initRuns, newLog, lg, got, calls, slack, last>>

OnceDoSlowNoRecheck(p) ==
    /\ pc[p] = "slow"
    /\ onceMu = 0
    /\ onceMu' = p
    /\ initRuns' = initRuns + 1
    /\ pc' = [pc EXCEPT ![p] = "new"]
    /\ UNCHANGED <<env, initDone, slackClient, isSlackEnabled, authTest, appLogger,
                   onceDone, newLog, lg, got, calls, slack, last>>

\* loggerInitOnce.Do, doSlow: take the mutex (blocking while it is held), look
\* at done again, and either leave or start the initializer
OnceDoSlow(p) ==
    /\ pc[p] = "slow"
    /\ onceMu = 0
    /\ IF onceDone
       THEN /\ pc' = [pc EXCEPT ![p] = "ret"]
            /\ UNCHANGED <<onceMu, initRuns>>
       ELSE /\ onceMu' = p
            /\ initRuns' = initRuns + 1
            /\ pc' = [pc EXCEPT ![p] = "new"]
    /\ UNCHANGED <<env, initDone, slackClient, isSlackEnabled, authTest, appLogger,
                   onceDone, newLog, lg, got, calls, slack, last>>

\* getLogger, lines 30-35: the first logger.New
InitNew(p) ==
    /\ pc[p] = "new"
    /\ \E r \in loggerNew(FALSE) :
        /\ lg' = [lg EXCEPT ![p] = r.lg]
        /\ pc' = [pc EXCEPT ![p] = IF r.err # NoErr THEN "fallback" ELSE "assign"]
        /\ newLog' = Append(newLog, [stdoutOnly |-> FALSE, ok |-> r.err = NoErr])
    /\ UNCHANGED <<env, initDone, slackClient, isSlackEnabled, authTest, appLogger,
                   onceDone, onceMu, initRuns, got, calls, slack, last>>

\* getLogger, lines 36-42: the stdout-only logger.New, its error dropped
InitFallback(p) ==
    /\ pc[p] = "fallback"
    /\ \E r \in loggerNew(TRUE) :
        /\ lg' = [lg EXCEPT ![p] = r.lg]
        /\ newLog' = Append(newLog, [stdoutOnly |-> TRUE, ok |-> r.err = NoErr])
    /\ pc' = [pc EXCEPT ![p] = "assign"]
    /\ UNCHANGED <<env, initDone, slackClient, isSlackEnabled, authTest, appLogger,
                   onceDone, onceMu, initRuns, got, calls, slack, last>>

\* getLogger, line 44: appLogger = lg
InitAssign(p) ==
    /\ pc[p] = "assign"
    /\ appLogger' = lg[p]
    /\ lg' = [lg EXCEPT ![p] = "nil"]
    /\ pc' = [pc EXCEPT ![p] = "finish"]
    /\ UNCHANGED <<env, initDone, slackClient, isSlackEnabled, authTest, onceDone,
                   onceMu, initRuns, newLog, got, calls, slack, last>>

\* loggerInitOnce.Do, doSlow's deferred calls: store done, release the mutex
OnceFinish(p) ==
    /\ pc[p] = "finish"
    /\ onceDone' = TRUE
    /\ onceMu' = 0
    /\ pc' = [pc EXCEPT ![p] = "ret"]
    /\ UNCHANGED <<env, initDone, slackClient, isSlackEnabled, authTest, appLogger,
                   initRuns, newLog, lg, got, calls, slack, last>>

\* getLogger, line 46: return appLogger
getLoggerReturn(p) ==
    /\ pc[p] = "ret"
    /\ got' = [got EXCEPT ![p] = appLogger]
    /\ pc' = [pc EXCEPT ![p] = "body"]
    /\ UNCHANGED <<env, initDone, slackClient, isSlackEnabled, authTest, appLogger,
                   onceDone, onceMu, initRuns, newLog, lg, calls, slack, last>>

\* getLogger: all of its steps for goroutine p
getLogger(p) ==
    \/ OnceDo(p)
    \/ OnceDoSlow(p)
    \/ InitNew(p)
    \/ InitFallback(p)
    \/ InitAssign(p)
    \/ OnceFinish(p)
    \/ getLoggerReturn(p)

\* ---------------------------------------------------------------- inputs

Chan(name) == <<name>>

\* The environment the process starts in
Environments ==
    [ token : { <<>>, <<"x","o","x","p","-","1">>, <<"x","o","x","b","-","1">> },
      err   : { <<>>, Chan("C1") },
      warn  : { <<>>, Chan("C2") },
      def   : { <<>>, Chan("C3") } ]

Absent == [t |-> "absent", s |-> <<>>, m |-> <<>>]

Keys == {"severity", "logName", "textPayload", "jsonPayload"}

\* The JSON object with the members of v that are not Absent
Object(v) == Data("object", [k \in {x \in Keys : v[x] # Absent} |-> v[k]])

Severities ==
    { <<"E","R","R","O","R">>, <<"e","r","r","o","r">>, <<"C","r","i","t","i","c","a","l">>,
      <<"a","l","e","r","t">>, <<"E","M","E","R","G","E","N","C","Y">>,
      <<"W","a","r","n","i","n","g">>, <<"n","o","t","i","c","e">>,
      <<"i","n","f","o">>, <<"D","E","B","U","G">>, <<"E","R","R">>, <<>> }

ExampleObject == JObj(<< <<"b", <<"\"x\"">> >>, <<"a", <<"1">> >> >>)

\* Every kind of Data; every severity with the other members fixed; every
\* combination of the other members with the severity absent or "ERROR"
AllMessages ==
    { Data("empty", <<>>), Data("syntax", <<>>), Data("null", <<>>), Data("array", <<>>) }
    \cup { Object([severity |-> s, logName |-> JStr(<<"projects/p/logs/l">>),
                   textPayload |-> JStr(<<"boom">>), jsonPayload |-> Absent]) :
             s \in {JStr(x) : x \in Severities} \cup {JNull, JNum(<<"500">>)} }
    \cup { Object([severity |-> s, logName |-> l, textPayload |-> t, jsonPayload |-> j]) :
             s \in {Absent, JStr(<<"E","R","R","O","R">>)},
             l \in {Absent, JStr(<<"projects/p/logs/l">>)},
             t \in {Absent, JStr(<<>>), JStr(<<"boom">>), JNum(<<"7">>)},
             j \in {Absent, JNull, ExampleObject, JStr(<<"s">>)} }

\* What PostMessage may answer: no error, or an error with this text
AllPostOutcomes ==
    { NoErr, <<"invalid_auth">>, <<"channel_not_found">>, <<"not_in_channel">>,
      <<"is_archived">>, <<"slack server error: ", "invalid_auth">>,
      <<"user_", "not_in_channel">>, <<"rate_limited">> }

\* The inputs of the concurrent specification
Messages ==
    { Data("empty", <<>>), Data("syntax", <<>>), Data("null", <<>>),
      Object([severity |-> JStr(<<"E","R","R","O","R">>),
              logName |-> JStr(<<"projects/p/logs/l">>),
              textPayload |-> JStr(<<"boom">>), jsonPayload |-> Absent]),
      Object([severity |-> Absent, logName |-> JStr(<<"projects/p/logs/l">>),
              textPayload |-> Absent, jsonPayload |-> ExampleObject]) }

PostOutcomes == { NoErr, <<"channel_not_found">>, <<"rate_limited">> }

\* ---------------------------------------------------------------- specifications

Init ==
    /\ env \in Environments
    /\ initDone = FALSE
    /\ slackClient = "nil"
    /\ isSlackEnabled = FALSE
    /\ authTest = "notcalled"
    /\ appLogger = "nil"
    /\ onceDone = FALSE
    /\ onceMu = 0
    /\ initRuns = 0
    /\ newLog = <<>>
    /\ pc = [p \in Procs |-> "idle"]
    /\ lg = [p \in Procs |-> "nil"]
    /\ got = [p \in Procs |-> "nil"]
    /\ calls = 0
    /\ slack = <<>>
    /\ last = [msg |-> Data("none", <<>>), events |-> <<>>]

Handle(p) == \E m \in Messages, o \in PostOutcomes : HandleLogAlert(p, m, o)

Next ==
    \/ init
    \/ \E p \in Procs : Invoke(p)
    \/ \E p \in Procs : getLogger(p)
    \/ \E p \in Procs : Handle(p)

\* The process: package init, then HandleLogAlert on concurrent goroutines
Spec == Init /\ [][Next]_vars

\* One invocation of HandleLogAlert on one goroutine, over all the messages,
\* environments and Slack answers: the handler as a function of its input
InvokeOnce == calls = 0 /\ Invoke(1)

HandleAny == \E m \in AllMessages, o \in AllPostOutcomes : HandleLogAlert(1, m, o)

NextFn ==
    \/ init
    \/ InvokeOnce
    \/ getLogger(1)
    \/ HandleAny

SpecFn == Init /\ [][NextFn]_vars

\* ---------------------------------------------------------------- properties

\* The events of the last completed invocation, by kind
Sends == SelectSeq(last.events, LAMBDA e : e.op = "send")
Posts == SelectSeq(last.events, LAMBDA e : e.op = "post")
Logs == SelectSeq(last.events, LAMBDA e : e.op = "log")
Completed == last.events # <<>>
Returned == last.events[Len(last.events)]

\* The string member k of the last message's JSON object, "" when the member
\* is missing or is not a string
StrMember(msg, k) ==
    IF msg.kind = "object" /\ k \in DOMAIN msg.fields /\ msg.fields[k].t = "str"
    THEN msg.fields[k].s
    ELSE <<>>

HasMember(msg, k) == msg.kind = "object" /\ k \in DOMAIN msg.fields

\* The severity a message is rendered and routed with
ShownSeverity(msg) ==
    IF StrMember(msg, "severity") = <<>> THEN <<"D","E","F","A","U","L","T">>
    ELSE StrMember(msg, "severity")

EqualFold(a, b) == ToUpper(a) = ToUpper(b)

\* The routing table of the specification
TableChannel(sev) ==
    LET bucket ==
            IF \/ EqualFold(sev, <<"c","r","i","t","i","c","a","l">>)
               \/ EqualFold(sev, <<"a","l","e","r","t">>)
               \/ EqualFold(sev, <<"e","m","e","r","g","e","n","c","y">>)
               \/ EqualFold(sev, <<"e","r","r","o","r">>)
            THEN env.err
            ELSE IF \/ EqualFold(sev, <<"w","a","r","n","i","n","g">>)
                    \/ EqualFold(sev, <<"n","o","t","i","c","e">>)
            THEN env.warn
            ELSE env.def
    IN  IF bucket # <<>> THEN bucket ELSE env.def

\* "[SEVERITY] logName", then a newline and textPayload when it is non-empty,
\* then a newline and "json: " and the compact jsonPayload when withJson
TableText(msg, withJson) ==
    <<"[">> \o ShownSeverity(msg) \o <<"]", " ">> \o StrMember(msg, "logName")
    \o (IF StrMember(msg, "textPayload") # <<>>
        THEN <<"\n">> \o StrMember(msg, "textPayload") ELSE <<>>)
    \o (IF withJson
        THEN <<"\n", "json: ">> \o
             (IF msg.fields["jsonPayload"] = ExampleObject
              THEN <<"{", "\"", "a", "\"", ":", "1", ",", "\"", "b", "\"", ":", "\"x\"", "}">>
              ELSE IF msg.fields["jsonPayload"].t = "str"
              THEN <<"\"">> \o msg.fields["jsonPayload"].s \o <<"\"">>
              ELSE <<"null">>)
        ELSE <<>>)

\* Data that json.Unmarshal accepts: a JSON object, or the literal null
Parsable(msg) == msg.kind \in {"object", "null"}

\* C1 as stated: logger.New is invoked exactly once in the whole process
\* lifetime, however many goroutines call getLogger.
C1_NewCalledOnce ==
    /\ Len(newLog) <= 1
    /\ (onceDone => Len(newLog) = 1)

\* C1 amended: the initializer passed to loggerInitOnce.Do runs exactly once
\* (never twice, and once before any getLogger returns); it calls logger.New
\* once when that call succeeds and twice (the second with WithStdoutOnly) when
\* the first fails; no call of logger.New happens outside that one run.
C1_InitializerRunsOnce ==
    /\ initRuns <= 1
    /\ Len(newLog) <= 2
    /\ (Len(newLog) >= 1 => initRuns = 1 /\ ~newLog[1].stdoutOnly)
    /\ (Len(newLog) = 2 => ~newLog[1].ok /\ newLog[2].stdoutOnly)
    /\ (onceDone => /\ initRuns = 1
                    /\ Len(newLog) = (IF newLog[1].ok THEN 1 ELSE 2))
    /\ \A p \in Procs : pc[p] \in {"ret", "body"} => onceDone

C1_Witness ==
    /\ onceDone
    /\ Len(newLog) = 2
    /\ \A p \in Procs : pc[p] = "body"

\* C2: getLogger returns only after the initializer has finished, and every
\* call returns the one cached, fully constructed logger (never nil), also
\* when the first logger.New failed and the stdout-only fallback was used.
C2_ReturnsConstructedLogger ==
    /\ \A p \in Procs : pc[p] \in {"ret", "body"} => onceDone /\ appLogger # "nil"
    /\ \A p \in Procs : pc[p] = "body" => got[p] = appLogger /\ got[p] # "nil"
    /\ \A p \in Procs : pc[p] \in {"new", "fallback", "assign", "finish"} => onceMu = p
    /\ \A i \in DOMAIN Logs : Logs[i].on = appLogger /\ Logs[i].on # "nil"

C2_Witness ==
    \E p, q \in Procs :
        /\ p # q
        /\ Len(newLog) = 2
        /\ pc[p] = "body" /\ got[p] = "stdout"
        /\ pc[q] = "body" /\ got[q] = "stdout"

\* C3: for Data that is empty or is not a JSON object, HandleLogAlert logs one
\* record (a warning for empty Data, an error otherwise), returns a non-nil
\* error and does not call SendMessage.
C3_FailsClosed ==
    (Completed /\ last.msg.kind # "object") =>
        /\ Len(Logs) = 1
        /\ Logs[1].lvl = (IF last.msg.kind = "empty" THEN "WARNING" ELSE "ERROR")
        /\ Returned.op = "return" /\ Returned.err # NoErr
        /\ Sends = <<>>
        /\ Posts = <<>>

\* C4: chooseChannelForSeverity follows the routing table, case-insensitively,
\* with the default channel when the bucket's channel is unset, for every
\* severity and every combination of set and unset channels.
C4_ChannelBySeverity ==
    /\ \A sev \in Severities : chooseChannelForSeverity(sev) = TableChannel(sev)
    /\ \A i \in DOMAIN Sends : Sends[i].ch = TableChannel(ShownSeverity(last.msg))

C4_Witness ==
    /\ Len(Sends) = 1
    /\ ShownSeverity(last.msg) = <<"n","o","t","i","c","e">>
    /\ env.warn = <<>>
    /\ env.def # <<>>
    /\ Sends[1].ch = env.def

\* No channel resolves for the last message: its bucket's channel and the
\* default channel are unset
NoChannelResolves == Len(Sends) = 1 /\ TableChannel(ShownSeverity(last.msg)) = <<>>

C7_OutcomeLoggedBeforeReturn ==
    \A i \in DOMAIN last.events :
        last.events[i].op = "send" =>
            /\ Len(last.events) = i + 2
            /\ last.events[i + 1].op = "log"
            /\ last.events[i + 2].op = "return"
            /\ Len(Logs) = 1
            /\ IF last.events[i].err = NoErr
               THEN /\ last.events[i + 1].lvl = "INFO"
                    /\ last.events[i + 1].ch = last.events[i].ch
                    /\ last.events[i + 1].ts = last.events[i].ts
                    /\ last.events[i].ts # <<>>
                    /\ last.events[i + 2].err = NoErr
               ELSE /\ last.events[i + 1].lvl = "ERROR"
                    /\ last.events[i + 1].err = last.events[i].err
                    /\ last.events[i + 2].err = last.events[i].err

C7_Witness ==
    /\ Len(Sends) = 1
    /\ Sends[1].err = ErrChannelNotFound
    /\ Logs[1].lvl = "ERROR"
    /\ Returned.err = ErrChannelNotFound

\* A step in which some goroutine finishes HandleLogAlert
Finishes == \E p \in Procs : pc[p] = "body" /\ pc'[p] = "idle"

\* C8: HandleLogAlert keeps no per-message state.  Whatever was delivered
\* before, an invocation with a valid message makes one SendMessage call whose
\* destination and text depend on the message alone, each accepted call adds
\* one delivery, with a token of its own, to what Slack received, and no step
\* of a handler changes the environment or the Slack client state; the logger
\* cache is written once.
C8_NoDeduplication ==
    [][ /\ Finishes /\ last'.msg.kind = "object" =>
            LET sends == SelectSeq(last'.events, LAMBDA e : e.op = "send")
            IN  /\ Len(sends) = 1
                /\ sends[1].ch = TableChannel(ShownSeverity(last'.msg))
                /\ sends[1].text =
                      TableText(last'.msg, /\ HasMember(last'.msg, "jsonPayload")
                                           /\ last'.msg.fields["jsonPayload"].t # "null")
                /\ IF sends[1].err = NoErr
                   THEN /\ slack' = Append(slack, <<sends[1].ch, sends[1].text>>)
                        /\ sends[1].ts = <<Timestamps[Len(slack')]>>
                   ELSE slack' = slack
        /\ initDone => UNCHANGED <<env, initDone, slackClient, isSlackEnabled, authTest>>
        /\ onceDone => UNCHANGED <<appLogger, onceDone, initRuns, newLog>>
      ]_vars

C8_Witness ==
    /\ Len(slack) = 2
    /\ slack[1] = slack[2]
    /\ last.msg.kind = "object"
    /\ Len(Sends) = 1 /\ Sends[1].ch = slack[2][1] /\ Sends[1].text = slack[2][2]

\* C9: when PostMessage fails, SendMessage returns no delivery token and one
\* error: the message of a recognised kind (authentication failure, channel
\* not found, bot not in channel) named in PostMessage's error, or, when none
\* is named, "failed to send slack message: " followed by that error.
C9_SendErrorByKind ==
    \A i \in DOMAIN Posts :
        Posts[i].err # NoErr =>
            LET e == Posts[i].err
                named == { k \in { <<<<"invalid_auth">>, ErrAuthFailed>>,
                                   <<<<"channel_not_found">>, ErrChannelNotFound>>,
                                   <<<<"not_in_channel">>, ErrNotInChannel>> } :
                             \E j \in DOMAIN e : e[j] = k[1][1] }
            IN  /\ Len(Sends) = 1
                /\ Sends[1].ts = <<>>
                /\ IF named = {}
                   THEN Sends[1].err = <<"failed to send slack message: ">> \o e
                   ELSE \E k \in named : Sends[1].err = k[2]
                /\ Returned.err = Sends[1].err

C9_Witness ==
    /\ Len(Posts) = 1
    /\ Posts[1].err = <<"not_in_channel">>
    /\ Sends[1].err = ErrNotInChannel
    /\ Sends[1].ts = <<>>

\* C10: isSlackEnabled holds only after init found a bot token starting with
\* "xoxb-", created the client and passed the auth test, so it implies a
\* non-nil slackClient; PostMessage is called only with Slack enabled, on the
\* client, for a non-empty channel, and SendMessage otherwise returns an error
\* without posting.
C10_EnabledImpliesClient ==
    /\ isSlackEnabled =>
          /\ initDone
          /\ Len(env.token) >= 5
          /\ <<env.token[1], env.token[2], env.token[3], env.token[4], env.token[5]>>
                = <<"x", "o", "x", "b", "-">>
          /\ slackClient = "client"
          /\ authTest = "ok"
    /\ \A i \in DOMAIN Posts :
          /\ isSlackEnabled
          /\ Posts[i].on = "client"
          /\ Posts[i].ch # <<>>
    /\ \A i \in DOMAIN Sends :
          (~isSlackEnabled \/ Sends[i].ch = <<>>) =>
              /\ Sends[i].err # NoErr
              /\ Sends[i].ts = <<>>
              /\ Posts = <<>>

C10_Witness ==
    /\ isSlackEnabled
    /\ slackClient = "client"
    /\ Len(Posts) = 1
    /\ Posts[1].err = NoErr

====
